---- MODULE Spec2Model ----
(***************************************************************************)
(* Response parsers of leetcode-cli (src/cache/parser.rs).                 *)
(*                                                                         *)
(* Every parser is a function from a serde_json::Value tree to an Option.  *)
(* A JSON value is a record of its kind k and its payload; a text is a     *)
(* sequence of one-character strings, so that slicing, first-character     *)
(* tests and numeric parsing are computed and not assumed.  An Option is   *)
(* [tag |-> "None"] or [tag |-> "Some", val |-> x]; a panic of the process *)
(* is the result [tag |-> "Panic"].                                        *)
(***************************************************************************)
EXTENDS Integers, Sequences, FiniteSets, TLC

VARIABLES v, op, ret, problems, q, old_problems, old_q

vars == <<v, op, ret, problems, q, old_problems, old_q>>

(***************************************************************************)
(* Bounds of the model.                                                    *)
(***************************************************************************)
MaxPairs == 2
MaxEntries == 2
MaxDeviations == 2

(***************************************************************************)
(* Option and panic.                                                       *)
(***************************************************************************)
None == [tag |-> "None"]
Some(x) == [tag |-> "Some", val |-> x]
Panic == [tag |-> "Panic"]
NotCalled == [tag |-> "NotCalled"]
IsSome(o) == o.tag = "Some"
IsNone(o) == o.tag = "None"

(***************************************************************************)
(* serde_json::Value.                                                      *)
(***************************************************************************)
JNull == [k |-> "null"]
JBool(b) == [k |-> "bool", b |-> b]
JInt(n) == [k |-> "int", n |-> n]
\* a number with a fractional part, given in halves (h odd): h/2
JFloat(h) == [k |-> "float", h |-> h]
JStr(s) == [k |-> "str", s |-> s]
JArr(s) == [k |-> "arr", a |-> s]
\* marks a key left out of an object under construction; never a Value
Absent == [k |-> "absent"]

\* Value::as_object / as_array / as_str / as_bool / as_i64 / as_f64
as_object(o) == IF IsSome(o) /\ o.val.k = "obj" THEN Some(o.val) ELSE None
as_array(o) == IF IsSome(o) /\ o.val.k = "arr" THEN Some(o.val.a) ELSE None
as_str(o) == IF IsSome(o) /\ o.val.k = "str" THEN Some(o.val.s) ELSE None
as_bool(o) == IF IsSome(o) /\ o.val.k = "bool" THEN Some(o.val.b) ELSE None
as_i64(o) == IF IsSome(o) /\ o.val.k = "int" THEN Some(o.val.n) ELSE None
\* as_f64 accepts every number; the result is kept in halves
as_f64(o) ==
  IF IsSome(o) /\ o.val.k = "int" THEN Some(2 * o.val.n)
  ELSE IF IsSome(o) /\ o.val.k = "float" THEN Some(o.val.h)
  ELSE None
is_null(o) == IsSome(o) /\ o.val.k = "null"

\* Value::get(key) and Map::get(key): absence unless an object holding key
get(o, key) ==
  IF IsSome(o) /\ o.val.k = "obj" /\ key \in DOMAIN o.val.o
  THEN Some(o.val.o[key])
  ELSE None

\* x.as_object()?.get(k1)?.as_object()?.get(k2)? ... along a list of keys
RECURSIVE path(_, _)
path(o, keys) ==
  IF Len(keys) = 0 THEN o
  ELSE path(get(as_object(o), Head(keys)), Tail(keys))

\* Option::unwrap_or
unwrap_or(o, d) == IF IsSome(o) THEN o.val ELSE d

\* The integers of the model are confined to the i32 range: on them the cast
\* `as_i64()? as i32` keeps the value, so the casts of the parsers are not
\* written out.

(***************************************************************************)
(* Texts.                                                                  *)
(***************************************************************************)
Digits == <<"0", "1", "2", "3", "4", "5", "6", "7", "8", "9">>
IsDigit(c) == \E i \in 1..10 : Digits[i] = c
DigitVal(c) == (CHOOSE i \in 1..10 : Digits[i] = c) - 1

RECURSIVE DigitsVal(_)
DigitsVal(s) ==
  IF Len(s) = 0 THEN 0
  ELSE DigitsVal(SubSeq(s, 1, Len(s) - 1)) * 10 + DigitVal(s[Len(s)])

I32Max == 2147483647

\* the digit loop of i32::from_str: acc = acc * 10 + d (or - d after a minus
\* sign) with checked arithmetic; absence on overflow
RECURSIVE I32Digits(_, _, _)
I32Digits(s, neg, acc) ==
  IF Len(s) = 0 THEN Some(acc)
  ELSE LET d == DigitVal(Head(s))
       IN  IF neg
           THEN IF 0 - acc > (IF d = 0 THEN I32Max \div 10 ELSE (I32Max - (d - 1)) \div 10)
                THEN None
                ELSE I32Digits(Tail(s), neg, acc * 10 - d)
           ELSE IF acc > (I32Max - d) \div 10
                THEN None
                ELSE I32Digits(Tail(s), neg, acc * 10 + d)

\* str::parse::<i32>(): optional sign, at least one digit, no overflow
ParseI32(s) ==
  LET signed == Len(s) > 0 /\ s[1] \in {"+", "-"}
      body == IF signed THEN Tail(s) ELSE s
  IN  IF Len(body) = 0 \/ (\E i \in 1..Len(body) : ~IsDigit(body[i])) THEN None
      ELSE I32Digits(body, Len(s) > 0 /\ s[1] = "-", 0)

(***************************************************************************)
(* user parser                                                             *)
(***************************************************************************)
\* user() without the null test: a null user falls through to as_object()?
user_null_is_error(val) ==
  LET uo == as_object(path(Some(val), <<"data", "user">>))
      name == as_str(get(uo, "username"))
      prem == as_bool(get(uo, "isCurrentUserPremium"))
  IN  IF IsNone(uo) \/ IsNone(name) \/ IsNone(prem) THEN None
      ELSE Some(Some(<<name.val, prem.val>>))

user(val) ==
  LET u == path(Some(val), <<"data", "user">>)
      uo == as_object(u)
      name == as_str(get(uo, "username"))
      prem == as_bool(get(uo, "isCurrentUserPremium"))
  IN  IF IsNone(u) THEN None
      ELSE IF u.val = JNull THEN Some(None)
      ELSE IF IsNone(uo) THEN None
      ELSE IF IsNone(name) THEN None
      ELSE IF IsNone(prem) THEN None
      ELSE Some(Some(<<name.val, prem.val>>))

(***************************************************************************)
(* tag parser                                                              *)
(***************************************************************************)
\* the loop of tags() passing over an entry without a text questionId
RECURSIVE tags_loop_skip(_, _)
tags_loop_skip(arr, res) ==
  IF Len(arr) = 0 THEN Some(res)
  ELSE LET id == as_str(get(as_object(Some(Head(arr))), "questionId"))
       IN  IF IsNone(id) THEN tags_loop_skip(Tail(arr), res)
           ELSE tags_loop_skip(Tail(arr), Append(res, id.val))

\* the loop body of tags(): push the questionId of each entry, `?` leaves
RECURSIVE tags_loop(_, _)
tags_loop(arr, res) ==
  IF Len(arr) = 0 THEN Some(res)
  ELSE LET id == as_str(get(as_object(Some(Head(arr))), "questionId"))
       IN  IF IsNone(id) THEN None
           ELSE tags_loop(Tail(arr), Append(res, id.val))

tags(val) ==
  LET tag == path(Some(val), <<"data", "topicTag">>)
      arr == as_array(get(as_object(tag), "questions"))
  IN  IF IsNone(tag) THEN None
      ELSE IF is_null(tag) THEN Some(<<>>)
      ELSE IF IsNone(arr) THEN None
      ELSE tags_loop(arr.val, <<>>)

(***************************************************************************)
(* daily parser                                                            *)
(***************************************************************************)
daily(val) ==
  LET s == as_str(path(Some(val),
             <<"data", "activeDailyCodingChallengeQuestion", "question",
               "questionFrontendId">>))
  IN  IF IsNone(s) THEN None ELSE ParseI32(s.val)

(***************************************************************************)
(* problem parser                                                          *)
(***************************************************************************)
RECURSIVE GCD(_, _)
GCD(a, b) == IF b = 0 THEN a ELSE GCD(b, a % b)

\* total_acs / total_submitted * 100.0 on non-negative operands: NaN for
\* 0/0, infinity for x/0, otherwise the quotient as a reduced fraction
\* (rounding to f32 is not modelled)
Percent(acs, sub) ==
  IF sub = 0 THEN (IF acs = 0 THEN [kind |-> "NaN"] ELSE [kind |-> "inf"])
  ELSE LET g == GCD(acs * 100, sub)
       IN  [kind |-> "fin", n |-> (acs * 100) \div g, d |-> sub \div g]

\* the body of the `for p in pairs` loop: the Problem pushed for pair p, or
\* absence when one of its `?` leaves the function
problem_of_pair(val, p) ==
  LET po == Some(p)
      stat == as_object(get(po, "stat"))
      total_acs == as_f64(get(stat, "total_acs"))
      total_submitted == as_f64(get(stat, "total_submitted"))
      category == as_str(get(Some(val), "category_slug"))
      fid == as_i64(get(stat, "frontend_question_id"))
      id == as_i64(get(stat, "question_id"))
      level == as_i64(get(as_object(get(po, "difficulty")), "level"))
      locked == as_bool(get(po, "paid_only"))
      name == as_str(get(stat, "question__title"))
      slug == as_str(get(stat, "question__title_slug"))
      starred == as_bool(get(po, "is_favor"))
      status == get(po, "status")
  IN  IF \/ IsNone(stat) \/ IsNone(total_acs) \/ IsNone(total_submitted)
         \/ IsNone(category) \/ IsNone(fid) \/ IsNone(id) \/ IsNone(level)
         \/ IsNone(locked) \/ IsNone(name) \/ IsNone(slug) \/ IsNone(starred)
         \/ IsNone(status)
      THEN None
      ELSE Some([category |-> category.val,
                 fid |-> fid.val,
                 id |-> id.val,
                 level |-> level.val,
                 locked |-> locked.val,
                 name |-> name.val,
                 percent |-> Percent(total_acs.val, total_submitted.val),
                 slug |-> slug.val,
                 starred |-> starred.val,
                 status |-> unwrap_or(as_str(status), <<"N", "u", "l", "l">>),
                 desc |-> <<>>])

\* the loop of problem() inserting each record at the front
RECURSIVE problem_loop_prepend(_, _, _)
problem_loop_prepend(val, pairs, ps) ==
  IF Len(pairs) = 0 THEN [ret |-> Some(<<>>), problems |-> ps]
  ELSE LET r == problem_of_pair(val, Head(pairs))
       IN  IF IsNone(r) THEN [ret |-> None, problems |-> ps]
           ELSE problem_loop_prepend(val, Tail(pairs), <<r.val>> \o ps)

\* the loop of problem() going on after a malformed pair
RECURSIVE problem_loop_skip(_, _, _)
problem_loop_skip(val, pairs, ps) ==
  IF Len(pairs) = 0 THEN [ret |-> Some(<<>>), problems |-> ps]
  ELSE LET r == problem_of_pair(val, Head(pairs))
       IN  IF IsNone(r)
           THEN [ret |-> None, problems |-> problem_loop_skip(val, Tail(pairs), ps).problems]
           ELSE problem_loop_skip(val, Tail(pairs), Append(ps, r.val))

RECURSIVE problem_loop(_, _, _)
problem_loop(val, pairs, ps) ==
  IF Len(pairs) = 0 THEN [ret |-> Some(<<>>), problems |-> ps]
  ELSE LET r == problem_of_pair(val, Head(pairs))
       IN  IF IsNone(r) THEN [ret |-> None, problems |-> ps]
           ELSE problem_loop(val, Tail(pairs), Append(ps, r.val))

problem(ps, val) ==
  LET pairs == as_array(get(Some(val), "stat_status_pairs"))
  IN  IF IsNone(pairs) THEN [ret |-> None, problems |-> ps]
      ELSE problem_loop(val, pairs.val, ps)

(***************************************************************************)
(* Decoders of the records declared in cache/models.rs.  A JSON text is a  *)
(* sequence of atoms: single characters, and a quoted key as one atom.     *)
(***************************************************************************)
Quote == "\""

\* serde_json::from_str::<Stats>: {"acRate":"<rate>"}
StatsFromStr(t) ==
  LET n == Len(t)
  IN  IF /\ n >= 6
         /\ t[1] = "{" /\ t[2] = "\"acRate\"" /\ t[3] = ":" /\ t[4] = Quote
         /\ t[n - 1] = Quote /\ t[n] = "}"
         /\ \A i \in 5..(n - 2) : t[i] \notin {Quote, "{", "}"}
      THEN Some([rate |-> SubSeq(t, 5, n - 2)])
      ELSE None

\* serde_json::from_str::<CodeDefintion>: [ ... ]
DefsFromStr(t) ==
  LET n == Len(t)
  IN  IF n >= 2 /\ t[1] = "[" /\ t[n] = "]"
         /\ \A i \in 2..(n - 1) : t[i] \notin {"[", "]"}
      THEN Some(SubSeq(t, 2, n - 1))
      ELSE None

\* serde_json::from_str::<MetaData>: { ... }
MetaFromStr(t) ==
  LET n == Len(t)
  IN  IF n >= 2 /\ t[1] = "{" /\ t[n] = "}"
         /\ \A i \in 2..(n - 1) : t[i] \notin {"{", "}"}
      THEN Some([raw |-> SubSeq(t, 2, n - 1)])
      ELSE None

\* Question::default()
DefaultQuestion ==
  [content |-> <<>>, stats |-> [rate |-> <<>>], defs |-> <<>>, case |-> <<>>,
   all_cases |-> <<>>, metadata |-> [raw |-> <<>>], test |-> FALSE,
   t_content |-> <<>>]

\* serde_json::to_string(&Question): the serialised form of the record
QuestionToString(qn) == [json_text_of |-> qn]

\* serde_json::from_value::<ContestQuestionStub>: a map holding the four
\* fields, or a sequence giving them in declaration order
StubFromValue(x) ==
  LET xo == Some(x)
      f(key, i) == IF x.k = "obj" THEN get(xo, key)
                   ELSE IF x.k = "arr" /\ Len(x.a) = 4 THEN Some(x.a[i])
                   ELSE None
      question_id == as_i64(f("question_id", 1))
      credit == as_i64(f("credit", 2))
      title == as_str(f("title", 3))
      title_slug == as_str(f("title_slug", 4))
  IN  IF IsNone(question_id) \/ IsNone(credit) \/ IsNone(title) \/ IsNone(title_slug)
      THEN None
      ELSE Some([question_id |-> question_id.val, credit |-> credit.val,
                 title |-> title.val, title_slug |-> title_slug.val])

(***************************************************************************)
(* desc parser                                                             *)
(***************************************************************************)
\* all_cases without the fall-back: o.get("exampleTestcases")?.as_str()?
desc_all_cases_no_fallback(o) == as_str(get(o, "exampleTestcases"))

\* all_cases: o.get("exampleTestcases").unwrap_or(o.get("sampleTestCase")?)
\*              .as_str()?
desc_all_cases(o) ==
  LET sample == get(o, "sampleTestCase")
  IN  IF IsNone(sample) THEN None
      ELSE as_str(Some(unwrap_or(get(o, "exampleTestcases"), sample.val)))

\* t_content without the default: o.get("translatedContent")?.as_str()?
desc_t_content_strict(o) == as_str(get(o, "translatedContent"))

\* t_content: o.get("translatedContent")?.as_str().unwrap_or("")
desc_t_content(o) ==
  LET t == get(o, "translatedContent")
  IN  IF IsNone(t) THEN None ELSE Some(unwrap_or(as_str(t), <<>>))

\* the fields of the `Question { ... }` expression, each an Option
desc_fields(o) ==
  LET content == get(o, "content")
      stats_s == as_str(get(o, "stats"))
      defs_s == as_str(get(o, "codeDefinition"))
      meta_s == as_str(get(o, "metaData"))
  IN  [content |-> IF IsNone(content) THEN None
                   ELSE Some(unwrap_or(as_str(content), <<>>)),
       stats |-> IF IsNone(stats_s) THEN None ELSE StatsFromStr(stats_s.val),
       defs |-> IF IsNone(defs_s) THEN None ELSE DefsFromStr(defs_s.val),
       case |-> as_str(get(o, "sampleTestCase")),
       all_cases |-> desc_all_cases(o),
       metadata |-> IF IsNone(meta_s) THEN None ELSE MetaFromStr(meta_s.val),
       test |-> as_bool(get(o, "enableRunCode")),
       t_content |-> desc_t_content(o)]

QuestionFields ==
  <<"content", "stats", "defs", "case", "all_cases", "metadata", "test", "t_content">>

\* the fields stored one by one, in order, up to the first `?` that leaves
desc_assign_partial(qn, f) ==
  LET n == Len(QuestionFields)
      bad == {i \in 1..n : IsNone(f[QuestionFields[i]])}
      first == IF bad = {} THEN n + 1
               ELSE CHOOSE i \in bad : \A j \in bad : i <= j
      idx(x) == CHOOSE i \in 1..n : QuestionFields[i] = x
  IN  [ret |-> IF bad = {} THEN Some(TRUE) ELSE None,
       q |-> [x \in DOMAIN f |-> IF idx(x) < first THEN f[x].val ELSE qn[x]]]

\* `*q = Question { ... }`: the record is assigned once, after every field
\* has been computed; a `?` inside the expression returns before the store
desc_assign(qn, f) ==
  IF \E i \in 1..Len(QuestionFields) : IsNone(f[QuestionFields[i]])
  THEN [ret |-> None, q |-> qn]
  ELSE [ret |-> Some(TRUE), q |-> [x \in DOMAIN f |-> f[x].val]]

desc(qn, val) ==
  LET o == as_object(path(Some(val), <<"data", "question">>))
      content == get(o, "content")
  IN  IF IsNone(o) THEN [ret |-> None, q |-> qn]
      ELSE IF IsNone(content) THEN [ret |-> None, q |-> qn]
      ELSE IF content.val = JNull THEN [ret |-> Some(FALSE), q |-> qn]
      ELSE desc_assign(qn, desc_fields(o))

(***************************************************************************)
(* graphql problem && question parser                                      *)
(***************************************************************************)
\* UTF-8 width of a character; every character of the model but the euro
\* sign is ASCII
ByteLen(c) == IF c = "€" THEN 3 ELSE 1

Upper == <<"A", "C", "E", "H", "M", "T">>
Lower == <<"a", "c", "e", "h", "m", "t">>
\* char::to_ascii_lowercase on the letters of the model
ToAsciiLowerChar(c) ==
  IF \E i \in 1..Len(Upper) : Upper[i] = c
  THEN Lower[CHOOSE i \in 1..Len(Upper) : Upper[i] = c]
  ELSE c
to_ascii_lowercase(s) == [i \in 1..Len(s) |-> ToAsciiLowerChar(s[i])]

\* str::parse::<f32>() on texts of sign, digits and '.': an optional sign,
\* digits with at most one '.', at least one digit; the value is
\* n / 10^e (rounding to f32 is not modelled)
ParseF32(s) ==
  LET signed == Len(s) > 0 /\ s[1] \in {"+", "-"}
      body == IF signed THEN Tail(s) ELSE s
      dots == {i \in 1..Len(body) : body[i] = "."}
      digs == SelectSeq(body, IsDigit)
  IN  IF \/ Len(digs) = 0
         \/ Cardinality(dots) > 1
         \/ \E i \in 1..Len(body) : ~IsDigit(body[i]) /\ body[i] # "."
      THEN None
      ELSE Some([neg |-> Len(s) > 0 /\ s[1] = "-",
                 n |-> DigitsVal(digs),
                 e |-> IF dots = {} THEN 0
                       ELSE Len(body) - (CHOOSE i \in dots : TRUE)])

\* `percent[..percent.len()-1]`: panics when the text is empty (the
\* subtraction overflows, or wraps to an end past the text) and when the
\* cut falls inside a multi-byte character
slice_to_len_minus_1(s) ==
  IF Len(s) = 0 THEN Panic
  ELSE IF ByteLen(s[Len(s)]) # 1 THEN Panic
  ELSE Some(SubSeq(s, 1, Len(s) - 1))

\* the `match` with the arms of 'M' and 'H' exchanged
level_arms_exchanged(c) ==
  IF c = "E" THEN 1
  ELSE IF c = "M" THEN 3
  ELSE IF c = "H" THEN 2
  ELSE 0

\* the `match` on the first character of `difficulty`
level_of_first_char(c) ==
  IF c = "E" THEN 1
  ELSE IF c = "M" THEN 2
  ELSE IF c = "H" THEN 3
  ELSE 0

\* the level field: v.get("difficulty")?.as_str()?.chars().next()?
graphql_level(o) ==
  LET d == as_str(get(o, "difficulty"))
  IN  IF IsNone(d) THEN None
      ELSE IF Len(d.val) = 0 THEN None
      ELSE Some(level_of_first_char(d.val[1]))

\* the `Problem { ... }` expression of the composite parser
graphql_problem(o, percent, qn) ==
  LET category == as_str(get(o, "categoryTitle"))
      fid_s == as_str(get(o, "questionFrontendId"))
      fid == IF IsNone(fid_s) THEN None ELSE ParseI32(fid_s.val)
      id_s == as_str(get(o, "questionId"))
      id == IF IsNone(id_s) THEN None ELSE ParseI32(id_s.val)
      level == graphql_level(o)
      name == as_str(get(o, "title"))
      slug == as_str(get(o, "titleSlug"))
      starred == as_bool(get(o, "isFavor"))
      status == get(o, "status")
  IN  IF \/ IsNone(category) \/ IsNone(fid) \/ IsNone(id) \/ IsNone(level)
         \/ IsNone(name) \/ IsNone(slug) \/ IsNone(starred) \/ IsNone(status)
      THEN None
      ELSE Some([category |-> to_ascii_lowercase(category.val),
                 fid |-> fid.val,
                 id |-> id.val,
                 level |-> level.val,
                 locked |-> FALSE,
                 name |-> name.val,
                 percent |-> percent,
                 slug |-> slug.val,
                 starred |-> starred.val,
                 status |-> unwrap_or(as_str(status), <<"N", "u", "l", "l">>),
                 desc |-> QuestionToString(qn)])

\* assert_eq!(Some(true), desc(&mut qn, v.clone()))
assert_desc(d) == d.ret = Some(TRUE)

graphql_problem_and_question(val) ==
  LET d == desc(DefaultQuestion, val)
      qn == d.q
      cut == slice_to_len_minus_1(qn.stats.rate)
      percent == ParseF32(cut.val)
      o == as_object(path(Some(val), <<"data", "question">>))
      pr == graphql_problem(o, percent.val, qn)
  IN  IF ~assert_desc(d) THEN Panic
      ELSE IF cut = Panic THEN Panic
      ELSE IF IsNone(percent) THEN None
      ELSE IF IsNone(o) THEN None
      ELSE IF IsNone(pr) THEN None
      ELSE Some(<<pr.val, qn>>)

(***************************************************************************)
(* contest parser                                                          *)
(***************************************************************************)
\* .map(|q| { ...; stub.unwrap() }).collect(): the stubs in order, or a
\* panic at the first entry that does not decode
RECURSIVE contest_questions(_)
contest_questions(arr) ==
  IF Len(arr) = 0 THEN Some(<<>>)
  ELSE LET stub == StubFromValue(Head(arr))
           rest == contest_questions(Tail(arr))
       IN  IF IsNone(stub) THEN Panic
           ELSE IF rest = Panic THEN Panic
           ELSE Some(<<stub.val>> \o rest.val)

contest(val) ==
  LET o == as_object(Some(val))
      c == as_object(get(o, "contest"))
      arr == as_array(get(o, "questions"))
      questions == contest_questions(arr.val)
      id == as_i64(get(c, "id"))
      duration == as_i64(get(c, "duration"))
      start_time == as_i64(get(c, "start_time"))
      title == as_str(get(c, "title"))
      title_slug == as_str(get(c, "title_slug"))
      is_virtual == as_bool(get(c, "is_virtual"))
      contains_premium == as_bool(get(o, "containsPremium"))
      registered == as_bool(get(o, "registered"))
  IN  IF IsNone(o) \/ IsNone(c) \/ IsNone(arr) THEN None
      ELSE IF questions = Panic THEN Panic
      ELSE IF \/ IsNone(id) \/ IsNone(duration) \/ IsNone(start_time)
              \/ IsNone(title) \/ IsNone(title_slug) \/ IsNone(is_virtual)
              \/ IsNone(contains_premium) \/ IsNone(registered)
      THEN None
      ELSE Some([id |-> id.val,
                 duration |-> duration.val,
                 start_time |-> start_time.val,
                 title |-> title.val,
                 title_slug |-> title_slug.val,
                 description |-> <<>>,
                 is_virtual |-> is_virtual.val,
                 contains_premium |-> contains_premium.val,
                 registered |-> registered.val,
                 questions |-> questions.val])

(***************************************************************************)
(* Inputs: the response bodies handed to the parsers.  Each family is the  *)
(* documented shape of one endpoint with some of its nodes removed or      *)
(* replaced by a value of another kind.                                    *)
(***************************************************************************)
EmptyObj == [k |-> "obj", o |-> <<>>]
Wrap1(key, x) == [k |-> "obj", o |-> (key :> x)]

\* the tuples that differ from good in at most budget positions i..Len(good),
\* a changed position j holding a member of alts[j]
RECURSIVE Deviate(_, _, _, _)
Deviate(good, alts, i, budget) ==
  IF i > Len(good) THEN {<<>>}
  ELSE {<<good[i]>> \o r : r \in Deviate(good, alts, i + 1, budget)}
       \cup (IF budget > 0
             THEN {<<a>> \o r : a \in alts[i], r \in Deviate(good, alts, i + 1, budget - 1)}
             ELSE {})

\* the object with keys names[j] and values t[j], keys marked Absent left out
ObjOf(names, t) ==
  [k |-> "obj",
   o |-> [key \in {names[j] : j \in {i \in 1..Len(names) : t[i] # Absent}}
            |-> t[CHOOSE j \in 1..Len(names) : names[j] = key]]]

\* sequences over S of length at most n
RECURSIVE SeqsUpTo(_, _)
SeqsUpTo(S, n) ==
  IF n = 0 THEN {<<>>}
  ELSE SeqsUpTo(S, n - 1)
       \cup {Append(r, x) : r \in {y \in SeqsUpTo(S, n - 1) : Len(y) = n - 1}, x \in S}

BadRoots ==
  {JNull, JStr(<<"x">>), EmptyObj, Wrap1("data", JNull), Wrap1("data", EmptyObj)}

\* GraphQL user
UserNames == <<"username", "isCurrentUserPremium">>
UserGood == <<JStr(<<"a", "n", "n">>), JBool(TRUE)>>
UserAlts == <<{Absent, JInt(1), JStr(<<"b">>), JNull},
              {Absent, JBool(FALSE), JStr(<<"y">>), JNull}>>
UserNodes ==
  {JNull, JStr(<<"a", "n", "n">>), JArr(<<>>), JBool(FALSE)}
  \cup {ObjOf(UserNames, t) : t \in Deviate(UserGood, UserAlts, 1, MaxDeviations)}
UserInputs == BadRoots \cup {Wrap1("data", Wrap1("user", u)) : u \in UserNodes}

\* GraphQL topic tag
TagEntries ==
  {Wrap1("questionId", JStr(<<"1">>)), Wrap1("questionId", JStr(<<"2", "0">>)),
   Wrap1("questionId", JInt(3)), EmptyObj, JStr(<<"1">>)}
TagNodes ==
  {JNull, JStr(<<"t">>), EmptyObj, Wrap1("questions", JNull)}
  \cup {Wrap1("questions", JArr(es)) : es \in SeqsUpTo(TagEntries, MaxEntries)}
TagInputs == BadRoots \cup {Wrap1("data", Wrap1("topicTag", t)) : t \in TagNodes}

\* GraphQL daily challenge
DailyIds ==
  {JStr(<<"1", "2">>), JStr(<<"-", "3">>), JStr(<<>>), JStr(<<"1", "x">>),
   JStr(<<"2", "1", "4", "7", "4", "8", "3", "6", "4", "8">>), JInt(5), JNull}
DailyInputs ==
  BadRoots
  \cup {Wrap1("data", Wrap1("activeDailyCodingChallengeQuestion", x)) :
          x \in {JNull, EmptyObj, Wrap1("question", EmptyObj)}}
  \cup {Wrap1("data", Wrap1("activeDailyCodingChallengeQuestion",
          Wrap1("question", Wrap1("questionFrontendId", i)))) : i \in DailyIds}

\* REST bulk problems
StatNames ==
  <<"question_id", "frontend_question_id", "question__title",
    "question__title_slug", "total_acs", "total_submitted">>
StatGood ==
  <<JInt(7), JInt(12), JStr(<<"T">>), JStr(<<"t">>), JInt(50), JInt(200)>>
StatAlts ==
  <<{JFloat(3)}, {Absent}, {JNull}, {}, {JStr(<<"5">>)}, {JInt(0), JFloat(1)}>>
PairNames == <<"stat", "difficulty", "paid_only", "is_favor", "status">>
PairGood ==
  <<ObjOf(StatNames, StatGood), Wrap1("level", JInt(1)), JBool(FALSE),
    JBool(TRUE), JStr(<<"a", "c">>)>>
PairAlts ==
  <<{Absent} \cup {ObjOf(StatNames, t) : t \in Deviate(StatGood, StatAlts, 1, 1) \ {StatGood}},
    {Wrap1("level", JInt(0)), Wrap1("level", JInt(2)), Wrap1("level", JInt(3)),
     Wrap1("level", JFloat(3)), Wrap1("level", JStr(<<"1">>)), JInt(1)},
    {Absent},
    {JNull},
    {JNull, Absent}>>
Pairs == {ObjOf(PairNames, t) : t \in Deviate(PairGood, PairAlts, 1, 1)}
ProblemInputs ==
  {JNull, EmptyObj, Wrap1("stat_status_pairs", JNull),
   Wrap1("category_slug", JStr(<<"a">>))}
  \cup {ObjOf(<<"category_slug", "stat_status_pairs">>, <<c, JArr(ps)>>) :
          c \in {JStr(<<"a">>), Absent, JInt(1)}, ps \in SeqsUpTo(Pairs, MaxPairs)}

\* GraphQL question detail
StatsText(rate) == JStr(<<"{", "\"acRate\"", ":", Quote>> \o rate \o <<Quote, "}">>)
QuestionNames ==
  <<"content", "stats", "codeDefinition", "sampleTestCase", "exampleTestcases",
    "metaData", "enableRunCode", "translatedContent", "categoryTitle",
    "questionFrontendId", "questionId", "difficulty", "title", "titleSlug",
    "isFavor", "status">>
QuestionGood ==
  <<JStr(<<"c">>),
    StatsText(<<"4", "5", ".", "5", "%">>),
    JStr(<<"[", "]">>),
    JStr(<<"1", "\n", "2">>),
    JStr(<<"3">>),
    JStr(<<"{", "}">>),
    JBool(TRUE),
    JStr(<<"t">>),
    JStr(<<"A", "T">>),
    JStr(<<"1", "2">>),
    JStr(<<"7">>),
    JStr(<<"E", "a", "s", "y">>),
    JStr(<<"T">>),
    JStr(<<"t">>),
    JBool(FALSE),
    JNull>>
QuestionAlts ==
  <<{Absent, JNull, JInt(1)},
    {Absent, JNull, JStr(<<"{">>), StatsText(<<>>), StatsText(<<"%">>),
     StatsText(<<"x", "%">>), StatsText(<<"5", "0">>), StatsText(<<"1", "€">>)},
    {Absent, JStr(<<"[">>), JArr(<<>>)},
    {Absent, JNull},
    {Absent, JNull},
    {Absent, JStr(<<"}">>)},
    {Absent, JStr(<<"y">>)},
    {Absent, JNull},
    {Absent, JNull},
    {Absent, JStr(<<"x">>), JInt(12)},
    {Absent, JStr(<<"2", "1", "4", "7", "4", "8", "3", "6", "4", "8">>)},
    {Absent, JNull, JStr(<<>>), JStr(<<"M", "e", "d", "i", "u", "m">>),
     JStr(<<"H", "a", "r", "d">>), JStr(<<"E", "l", "s", "e">>),
     JStr(<<"M", "a", "x">>), JStr(<<"H", "o", "t">>), JStr(<<"T", "o", "p">>),
     JStr(<<"e", "a", "s", "y">>)},
    {Absent},
    {Absent},
    {Absent, JNull},
    {Absent, JStr(<<"a", "c">>)}>>
QuestionNodes ==
  {JNull, EmptyObj}
  \cup {ObjOf(QuestionNames, t) : t \in Deviate(QuestionGood, QuestionAlts, 1, MaxDeviations)}
QuestionInputs == BadRoots \cup {Wrap1("data", Wrap1("question", x)) : x \in QuestionNodes}

\* REST contest detail
ContestNames == <<"id", "duration", "start_time", "title", "title_slug", "is_virtual">>
ContestGood ==
  <<JInt(3), JInt(5400), JInt(1650000000), JStr(<<"C">>), JStr(<<"c">>), JBool(FALSE)>>
ContestAlts == <<{Absent, JFloat(1)}, {JStr(<<"5">>)}, {JNull}, {Absent}, {JInt(1)}, {Absent}>>
StubGood ==
  ObjOf(<<"question_id", "credit", "title", "title_slug">>,
        <<JInt(7), JInt(3), JStr(<<"T">>), JStr(<<"t">>)>>)
Stubs ==
  {StubGood,
   JArr(<<JInt(8), JInt(4), JStr(<<"T">>), JStr(<<"t">>)>>),
   ObjOf(<<"question_id", "credit", "title">>, <<JInt(7), JInt(3), JStr(<<"T">>)>>),
   ObjOf(<<"question_id", "credit", "title", "title_slug">>,
         <<JStr(<<"7">>), JInt(3), JStr(<<"T">>), JStr(<<"t">>)>>),
   JNull}
RootNames == <<"contest", "questions", "containsPremium", "registered">>
RootGood == <<ObjOf(ContestNames, ContestGood), JArr(<<StubGood>>), JBool(FALSE), JBool(TRUE)>>
RootAlts ==
  <<{Absent, JNull}
      \cup {ObjOf(ContestNames, t) : t \in Deviate(ContestGood, ContestAlts, 1, 1) \ {ContestGood}},
    {Absent, JNull} \cup {JArr(qs) : qs \in SeqsUpTo(Stubs, MaxEntries) \ {<<StubGood>>}},
    {Absent, JNull},
    {Absent, JStr(<<"y">>)}>>
ContestInputs ==
  {JNull, JStr(<<"x">>), EmptyObj}
  \cup {ObjOf(RootNames, t) : t \in Deviate(RootGood, RootAlts, 1, MaxDeviations)}

Inputs ==
  UserInputs \cup TagInputs \cup DailyInputs \cup ProblemInputs
  \cup QuestionInputs \cup ContestInputs

\* records that may already be in the caller's storage
SomeProblem ==
  [category |-> <<"a">>, fid |-> 1, id |-> 1, level |-> 1, locked |-> FALSE,
   name |-> <<"O">>, percent |-> Percent(2, 4), slug |-> <<"o">>,
   starred |-> FALSE, status |-> <<"a", "c">>, desc |-> <<>>]
SomeQuestion ==
  [content |-> <<"o">>, stats |-> [rate |-> <<"9", "%">>], defs |-> <<>>,
   case |-> <<"0">>, all_cases |-> <<"0">>, metadata |-> [raw |-> <<>>],
   test |-> TRUE, t_content |-> <<"o">>]

(***************************************************************************)
(* The state machine: one response body, one parser call on it.            *)
(***************************************************************************)
Init ==
  /\ v \in Inputs
  /\ op = "none"
  /\ ret = NotCalled
  /\ \E fresh \in BOOLEAN :
       /\ problems = IF fresh THEN <<>> ELSE <<SomeProblem>>
       /\ q = IF fresh THEN DefaultQuestion ELSE SomeQuestion
  /\ old_problems = problems
  /\ old_q = q

\* a call that touches neither the problem list nor the question
Pure(name, result) ==
  /\ op = "none"
  /\ op' = name
  /\ ret' = result
  /\ old_problems' = problems
  /\ old_q' = q
  /\ UNCHANGED <<v, problems, q>>

CallContest == Pure("contest", contest(v))

CallProblem ==
  /\ op = "none"
  /\ op' = "problem"
  /\ ret' = problem(problems, v).ret
  /\ problems' = problem(problems, v).problems
  /\ old_problems' = problems
  /\ old_q' = q
  /\ UNCHANGED <<v, q>>

CallGraphql == Pure("graphql_problem_and_question", graphql_problem_and_question(v))

CallDesc ==
  /\ op = "none"
  /\ op' = "desc"
  /\ ret' = desc(q, v).ret
  /\ q' = desc(q, v).q
  /\ old_problems' = problems
  /\ old_q' = q
  /\ UNCHANGED <<v, problems>>

CallTags == Pure("tags", tags(v))

CallDaily == Pure("daily", daily(v))

CallUser == Pure("user", user(v))

Next ==
  \/ CallContest
  \/ CallProblem
  \/ CallGraphql
  \/ CallDesc
  \/ CallTags
  \/ CallDaily
  \/ CallUser

Spec == Init /\ [][Next]_vars

(***************************************************************************)
(* Shapes of the input, read off the JSON tree directly.                   *)
(***************************************************************************)
Has(x, key) == x.k = "obj" /\ key \in DOMAIN x.o
HasKind(x, key, kind) == Has(x, key) /\ x.o[key].k = kind
HasNumber(x, key) == Has(x, key) /\ x.o[key].k \in {"int", "float"}
Halves(x) == IF x.k = "int" THEN 2 * x.n ELSE x.h
TextOr(x, d) == IF x.k = "str" THEN x.s ELSE d
NullText == <<"N", "u", "l", "l">>

HasQuestion(val) ==
  /\ HasKind(val, "data", "obj")
  /\ HasKind(val.o["data"], "question", "obj")
QNode(val) == val.o["data"].o["question"]
\* val with data.question[key] set to x
WithField(val, key, x) ==
  Wrap1("data", Wrap1("question", [k |-> "obj", o |-> (key :> x) @@ QNode(val).o]))

CategoryOk(val) == HasKind(val, "category_slug", "str")
HasPairs(val) == HasKind(val, "stat_status_pairs", "arr")
PairsOf(val) == val.o["stat_status_pairs"].a

WellFormedPair(p) ==
  /\ HasKind(p, "stat", "obj")
  /\ HasNumber(p.o["stat"], "total_acs")
  /\ HasNumber(p.o["stat"], "total_submitted")
  /\ HasKind(p.o["stat"], "frontend_question_id", "int")
  /\ HasKind(p.o["stat"], "question_id", "int")
  /\ HasKind(p.o["stat"], "question__title", "str")
  /\ HasKind(p.o["stat"], "question__title_slug", "str")
  /\ HasKind(p, "difficulty", "obj")
  /\ HasKind(p.o["difficulty"], "level", "int")
  /\ HasKind(p, "paid_only", "bool")
  /\ HasKind(p, "is_favor", "bool")
  /\ Has(p, "status")

WellFormedBody(val) ==
  /\ CategoryOk(val)
  /\ HasPairs(val)
  /\ \A i \in 1..Len(PairsOf(val)) : WellFormedPair(PairsOf(val)[i])

\* the Problem record a well-formed pair stands for
ExpectedProblem(val, p) ==
  [category |-> val.o["category_slug"].s,
   fid |-> p.o["stat"].o["frontend_question_id"].n,
   id |-> p.o["stat"].o["question_id"].n,
   level |-> p.o["difficulty"].o["level"].n,
   locked |-> p.o["paid_only"].b,
   name |-> p.o["stat"].o["question__title"].s,
   percent |-> Percent(Halves(p.o["stat"].o["total_acs"]),
                       Halves(p.o["stat"].o["total_submitted"])),
   slug |-> p.o["stat"].o["question__title_slug"].s,
   starred |-> p.o["is_favor"].b,
   status |-> TextOr(p.o["status"], NullText),
   desc |-> <<>>]

\* pair i cannot be turned into a record in this body
BadPair(val, i) == ~(CategoryOk(val) /\ WellFormedPair(PairsOf(val)[i]))
HasBadPair(val) == HasPairs(val) /\ \E i \in 1..Len(PairsOf(val)) : BadPair(val, i)
\* number of pairs in front of the first bad one
FirstBad(val) == (CHOOSE i \in 1..Len(PairsOf(val)) :
                    BadPair(val, i) /\ \A j \in 1..(i - 1) : ~BadPair(val, j)) - 1

(***************************************************************************)
(* C1.  No parser panics: every call returns absence, soft-null success or *)
(* a record, whatever the input tree.                                      *)
(***************************************************************************)
\* C1: after a call the result is never a panic
C1_NoParserPanics == ret.tag # "Panic"

(***************************************************************************)
(* C2.  On a well-formed bulk-problem body with n pairs problem() returns  *)
(* success and the sequence is its initial content followed by n records,  *)
(* the i-th built from the i-th pair.                                      *)
(***************************************************************************)
\* C2: success, and the old content followed by one record per pair, in order
C2_AppendsOnePerPair ==
  (op = "problem" /\ WellFormedBody(v)) =>
    /\ ret = Some(<<>>)
    /\ problems = old_problems
                  \o [i \in 1..Len(PairsOf(v)) |-> ExpectedProblem(v, PairsOf(v)[i])]

C2_Witness ==
  /\ op = "problem"
  /\ WellFormedBody(v)
  /\ Len(PairsOf(v)) = 2
  /\ PairsOf(v)[1] # PairsOf(v)[2]
  /\ Len(old_problems) = 1
  /\ Len(problems) = 3

(***************************************************************************)
(* C3.  When the first malformed pair is at index k (counted from 0),      *)
(* problem() returns absence and the sequence is its initial content       *)
(* followed by the records of pairs 0..k-1 only.                           *)
(***************************************************************************)
\* C3: absence, and the old content followed by the records before the first
\* malformed pair
C3_StopsAtFirstMalformedPair ==
  (op = "problem" /\ HasBadPair(v)) =>
    /\ ret = None
    /\ problems = old_problems
                  \o [i \in 1..FirstBad(v) |-> ExpectedProblem(v, PairsOf(v)[i])]

C3_Witness ==
  /\ op = "problem"
  /\ HasBadPair(v)
  /\ Len(PairsOf(v)) = 2
  /\ FirstBad(v) = 1
  /\ Len(old_problems) = 1
  /\ Len(problems) = 2
  /\ ret = None

(***************************************************************************)
(* C4.  When data.question.content is present and JSON null the outcome is *)
(* soft-null success with nothing populated: desc() returns Some(false)    *)
(* and leaves the Question alone, and graphql_problem_and_question, which  *)
(* runs desc() first, succeeds as well.                                    *)
(***************************************************************************)
ContentNull(val) == HasQuestion(val) /\ HasKind(QNode(val), "content", "null")

\* C4: null content is soft-null success for desc() and for the composite parser
C4_ContentNullIsSoftNull ==
  ContentNull(v) =>
    /\ op = "desc" => (ret = Some(FALSE) /\ q = old_q)
    /\ op = "graphql_problem_and_question" => ret.tag = "Some"

(***************************************************************************)
(* C5.  user() has three outcomes fixed by the input: Some(None) iff       *)
(* data.user is present and null; the pair (username, premium) iff         *)
(* data.user is an object with a text username and a boolean               *)
(* isCurrentUserPremium; absence in every other case.                      *)
(***************************************************************************)
HasUser(val) == HasKind(val, "data", "obj") /\ Has(val.o["data"], "user")
UNode(val) == val.o["data"].o["user"]
UserNull(val) == HasUser(val) /\ UNode(val).k = "null"
UserFull(val) ==
  /\ HasUser(val)
  /\ HasKind(UNode(val), "username", "str")
  /\ HasKind(UNode(val), "isCurrentUserPremium", "bool")

\* C5: the outcome of user() is fixed by the shape of data.user
C5_UserThreeOutcomes ==
  op = "user" =>
    /\ (ret = Some(None)) <=> UserNull(v)
    /\ (ret.tag = "Some" /\ ret.val.tag = "Some") <=> UserFull(v)
    /\ UserFull(v) =>
         ret = Some(Some(<<UNode(v).o["username"].s,
                           UNode(v).o["isCurrentUserPremium"].b>>))
    /\ (ret = None) <=> (~UserNull(v) /\ ~UserFull(v))

C5_Witness ==
  /\ op = "user"
  /\ UserFull(v)
  /\ ret = Some(Some(<<<<"a", "n", "n">>, TRUE>>))

(***************************************************************************)
(* C6.  tags() returns the empty list when data.topicTag is present and    *)
(* null; the ids of the entries, in order, when topicTag.questions is an   *)
(* array of objects with a text questionId; absence exactly when the       *)
(* structure is neither (one entry without a text questionId is enough,    *)
(* and then no partial list is returned).                                  *)
(***************************************************************************)
HasTag(val) == HasKind(val, "data", "obj") /\ Has(val.o["data"], "topicTag")
TNode(val) == val.o["data"].o["topicTag"]
TagNull(val) == HasTag(val) /\ TNode(val).k = "null"
TagList(val) ==
  /\ HasTag(val)
  /\ HasKind(TNode(val), "questions", "arr")
  /\ \A i \in 1..Len(TNode(val).o["questions"].a) :
       HasKind(TNode(val).o["questions"].a[i], "questionId", "str")

\* C6: empty list on null, the ids in order on a well-formed list, absence otherwise
C6_TagsOutcomes ==
  op = "tags" =>
    /\ TagNull(v) => ret = Some(<<>>)
    /\ TagList(v) =>
         ret = Some([i \in 1..Len(TNode(v).o["questions"].a) |->
                       TNode(v).o["questions"].a[i].o["questionId"].s])
    /\ (ret = None) <=> (~TagNull(v) /\ ~TagList(v))

C6_Witness ==
  /\ op = "tags"
  /\ TagList(v)
  /\ ret.tag = "Some"
  /\ Len(ret.val) = 2
  /\ ret.val[1] # ret.val[2]

(***************************************************************************)
(* C7.  Difficulty.  REST: a level in 0..3 is stored unchanged.  GraphQL,  *)
(* as claimed: every difficulty text has a level, "Easy" 1, "Medium" 2,    *)
(* "Hard" 3, every other text 0.  GraphQL, as amended: the first character *)
(* decides, E 1, M 2, H 3, any other 0, and the empty text has no level:   *)
(* the parser returns absence.                                             *)
(***************************************************************************)
Easy == <<"E", "a", "s", "y">>
Medium == <<"M", "e", "d", "i", "u", "m">>
Hard == <<"H", "a", "r", "d">>
DifficultyText(val) == HasQuestion(val) /\ HasKind(QNode(val), "difficulty", "str")
Diff(val) == QNode(val).o["difficulty"].s
\* the response is one the composite parser accepts when its difficulty is "Easy"
ParsesWithEasy(val) ==
  graphql_problem_and_question(WithField(val, "difficulty", JStr(Easy))).tag = "Some"

WordLevel(d) ==
  IF d = Easy THEN 1 ELSE IF d = Medium THEN 2 ELSE IF d = Hard THEN 3 ELSE 0
FirstCharLevel(d) ==
  IF d[1] = "E" THEN 1 ELSE IF d[1] = "M" THEN 2 ELSE IF d[1] = "H" THEN 3 ELSE 0

RestLevelUnchanged ==
  (op = "problem" /\ WellFormedBody(v)) =>
    /\ Len(problems) = Len(old_problems) + Len(PairsOf(v))
    /\ \A i \in 1..Len(PairsOf(v)) :
         PairsOf(v)[i].o["difficulty"].o["level"].n \in 0..3 =>
           problems[Len(old_problems) + i].level
             = PairsOf(v)[i].o["difficulty"].o["level"].n

\* C7 as claimed: the whole word decides, every other text gives 0
C7_DifficultyByWord ==
  /\ RestLevelUnchanged
  /\ (op = "graphql_problem_and_question" /\ DifficultyText(v) /\ ParsesWithEasy(v)) =>
       (ret.tag = "Some" /\ ret.val[1].level = WordLevel(Diff(v)))

\* C7 as amended: the first character decides, the empty text gives absence
C7_DifficultyByFirstChar ==
  /\ RestLevelUnchanged
  /\ (op = "graphql_problem_and_question" /\ DifficultyText(v) /\ ParsesWithEasy(v)) =>
       IF Len(Diff(v)) = 0 THEN ret = None
       ELSE ret.tag = "Some" /\ ret.val[1].level = FirstCharLevel(Diff(v))

C7_Witness ==
  /\ op = "graphql_problem_and_question"
  /\ DifficultyText(v)
  /\ Diff(v) = <<"H", "o", "t">>
  /\ ret.tag = "Some"
  /\ ret.val[1].level = 3

(***************************************************************************)
(* C8.  translatedContent in desc(), the rest of the question being valid. *)
(* As claimed: with the key absent the parse is Some(true) and t_content   *)
(* is empty.  As amended: the empty default is for a translatedContent     *)
(* that is present and not a text (JSON null); with the key absent desc()  *)
(* returns absence and leaves the Question alone.                          *)
(***************************************************************************)
TcAbsent(val) == HasQuestion(val) /\ ~Has(QNode(val), "translatedContent")
TcNotText(val) ==
  HasQuestion(val) /\ Has(QNode(val), "translatedContent")
  /\ QNode(val).o["translatedContent"].k # "str"
\* the response is one desc() fully parses when translatedContent is a text
ParsesWithTc(val) ==
  desc(DefaultQuestion, WithField(val, "translatedContent", JStr(<<"t">>))).ret = Some(TRUE)

\* C8 as claimed: an absent translatedContent key defaults to the empty text
C8_AbsentKeyDefaults ==
  (op = "desc" /\ TcAbsent(v) /\ ParsesWithTc(v)) =>
    (ret = Some(TRUE) /\ q.t_content = <<>>)

\* C8 as amended: a non-text translatedContent defaults, an absent key fails
C8_NullDefaultsAbsentFails ==
  (op = "desc" /\ HasQuestion(v) /\ ParsesWithTc(v)) =>
    /\ TcNotText(v) => (ret = Some(TRUE) /\ q.t_content = <<>>)
    /\ TcAbsent(v) => (ret = None /\ q = old_q)

C8_Witness ==
  /\ op = "desc"
  /\ TcNotText(v)
  /\ ParsesWithTc(v)
  /\ old_q = SomeQuestion
  /\ ret = Some(TRUE)
  /\ q.t_content = <<>>

(***************************************************************************)
(* C9.  On full success of desc(), case is the text of sampleTestCase and  *)
(* all_cases is the text of exampleTestcases when that key is present, of  *)
(* sampleTestCase when it is absent; an absent exampleTestcases does not   *)
(* make an otherwise valid question fail.                                  *)
(***************************************************************************)
ExAbsent(val) == HasQuestion(val) /\ ~Has(QNode(val), "exampleTestcases")
ParsesWithEx(val) ==
  desc(DefaultQuestion, WithField(val, "exampleTestcases", JStr(<<"3">>))).ret = Some(TRUE)

\* C9: all_cases prefers exampleTestcases and falls back to sampleTestCase
C9_AllCasesFallback ==
  /\ (op = "desc" /\ ret = Some(TRUE)) =>
       /\ HasKind(QNode(v), "sampleTestCase", "str")
       /\ q.case = QNode(v).o["sampleTestCase"].s
       /\ IF Has(QNode(v), "exampleTestcases")
          THEN /\ HasKind(QNode(v), "exampleTestcases", "str")
               /\ q.all_cases = QNode(v).o["exampleTestcases"].s
          ELSE q.all_cases = QNode(v).o["sampleTestCase"].s
  /\ (op = "desc" /\ ExAbsent(v) /\ ParsesWithEx(v)) => ret = Some(TRUE)

C9_Witness ==
  /\ op = "desc"
  /\ ExAbsent(v)
  /\ ret = Some(TRUE)
  /\ q.all_cases = <<"1", "\n", "2">>
  /\ old_q.all_cases = <<"0">>

(***************************************************************************)
(* C10.  desc() updates the Question all or nothing: on absence (also one  *)
(* caused by an embedded stats, codeDefinition or metaData text that does  *)
(* not decode, after earlier fields were read) the Question is as before;  *)
(* it changes only with Some(true), and then every field holds a value     *)
(* taken from the input.                                                   *)
(***************************************************************************)
ExpectedQuestion(val) ==
  LET o == QNode(val).o
  IN  [content |-> TextOr(o["content"], <<>>),
       stats |-> StatsFromStr(o["stats"].s).val,
       defs |-> DefsFromStr(o["codeDefinition"].s).val,
       case |-> o["sampleTestCase"].s,
       all_cases |-> IF "exampleTestcases" \in DOMAIN o
                     THEN o["exampleTestcases"].s ELSE o["sampleTestCase"].s,
       metadata |-> MetaFromStr(o["metaData"].s).val,
       test |-> o["enableRunCode"].b,
       t_content |-> TextOr(o["translatedContent"], <<>>)]

\* C10: the Question changes only on Some(true), and then wholly from the input
C10_DescAllOrNothing ==
  op = "desc" =>
    /\ ret = None => q = old_q
    /\ q # old_q => ret = Some(TRUE)
    /\ ret = Some(TRUE) => q = ExpectedQuestion(v)

C10_Witness ==
  /\ op = "desc"
  /\ ret = None
  /\ old_q = SomeQuestion
  /\ q = SomeQuestion
  /\ HasQuestion(v)
  /\ HasKind(QNode(v), "content", "str")
  /\ HasKind(QNode(v), "stats", "str")
  /\ IsSome(StatsFromStr(QNode(v).o["stats"].s))
  /\ HasKind(QNode(v), "metaData", "str")
  /\ IsNone(MetaFromStr(QNode(v).o["metaData"].s))

====
